---- MODULE Spec2Model ----
(***************************************************************************)
(* The statistics registry of syslog-ng (lib/stats.c): a hash table of     *)
(* reference-counted counter clusters keyed by (source, id, instance),     *)
(* the registry lock, level gating, dynamic counters and the               *)
(* publish-and-prune pass.                                                 *)
(***************************************************************************)
EXTENDS Integers, Sequences, FiniteSets, TLC

(***************************************************************************)
(* Bounds of the model.                                                    *)
(***************************************************************************)
MaxClusters == 2      \* number of heap slots a StatsCluster can be allocated in
MaxRef == 2           \* cap on ref_cnt reached through registrations
MaxTime == 2          \* cap on the cached wall clock
MaxCount == 1         \* cap on a counter value reached through stats_counter_inc
MaxIncs == 3          \* the increments each thread makes on the cell it shares

(***************************************************************************)
(* Program constants.                                                      *)
(***************************************************************************)
SC_TYPE_PROCESSED == 1
SC_TYPE_STAMP == 4
SC_TYPE_MAX == 5
SCS_SOURCE == 256                       \* 0x0100, direction flag
SCS_DESTINATION == 512                  \* 0x0200, direction flag
SCS_SOURCE_MASK == 255                  \* 0xff, the component of a packed source
SCS_GROUP == 17
SCS_GLOBAL == 20
SCS_SENDER == 27

NULL_HASH == {-1}                       \* counter_hash = NULL
NULL == 0
NULL_STR == "<NULL>"                    \* a NULL gchar pointer
NULL_OPTIONS == [null |-> TRUE]         \* stats_options before stats_reinit
NULL_ITEM == [sc |-> NULL, type |-> 0]  \* a NULL StatsCounterItem pointer
NULL_EVENT == <<[name |-> "NULL", value |-> ""]>>     \* st.stats_event = NULL
\* in place of an event record: the process died of signal while building it
\* (SIGSEGV on a NULL EVTREC, SIGABRT on g_assert_not_reached)
DeadEvent(signal) == <<[name |-> signal, value |-> ""]>>
FREE == [free |-> TRUE]                 \* a heap slot holding no StatsCluster
NO_PASS == [phase |-> "none"]           \* the timer handler is not running
\* the zero-initialized static struct iv_timer
NO_TIMER == [handler |-> "NULL", cookie |-> 0, registered |-> FALSE, pending |-> 0]

Threads == {"main", "worker"}
NoThread == "none"
Addrs == 1..MaxClusters
CounterTypes == 0..(SC_TYPE_MAX - 1)

(***************************************************************************)
(* Inputs of the operations.                                               *)
(***************************************************************************)
Sources == {SCS_GLOBAL, SCS_SENDER}
Ids == {"a"}
Instances == {NULL_STR, ""}
Levels == {0, 1}
RegTypes == {SC_TYPE_PROCESSED, SC_TYPE_STAMP}
Lifetimes == {1}
LogFreqs == {1}

VARIABLES
  stats_options,   \* NULL_OPTIONS or [level, log_freq, lifetime]
  stats_timer,     \* [handler, cookie, registered, pending]: the iv_timer of the scheduler
  counter_hash,    \* the addresses of the clusters stored in the hash table
  heap,            \* [Addrs -> StatsCluster record or FREE]
  stats_mutex,     \* the thread owning stats_mutex, or NoThread
  stats_locked,    \* the global flag
  pc,              \* per thread: "idle", "stats_lock", "locked", "stats_unlock", "called"
  now,             \* the cached current time, in seconds
  held,            \* [Addrs -> [CounterTypes -> Nat]]: registrations not yet unregistered
  call,            \* the last call and what it returned
  incs,            \* per thread: the increments it has made on the cell it shares
  st,              \* the StatsTimerState of the pass the timer handler is running
  fatal            \* "none", or the assertion that aborted the process

vars == <<stats_options, stats_timer, counter_hash, heap, stats_mutex, stats_locked, pc,
          now, held, call, incs, st, fatal>>

Init ==
  /\ stats_options = NULL_OPTIONS
  /\ stats_timer = NO_TIMER
  /\ counter_hash = {}
  /\ heap = [a \in Addrs |-> FREE]
  /\ stats_mutex = NoThread
  /\ stats_locked = FALSE
  /\ pc = [t \in Threads |-> "idle"]
  /\ now = 0
  /\ held = [a \in Addrs |-> [ty \in CounterTypes |-> 0]]
  /\ call = [op |-> "stats_init"]
  /\ incs = [t \in Threads |-> 0]
  /\ st = NO_PASS
  /\ fatal = "none"

(***************************************************************************)
(* Pure helpers.                                                           *)
(***************************************************************************)
\* what a structural operation sees: the hash table, the clusters and the
\* value of stats_locked
Registry == [hash |-> counter_hash, heap |-> heap, locked |-> stats_locked]

\* "if (!id) id = ''": a NULL string argument is replaced by the empty string
NormStr(s) == IF s = NULL_STR THEN "" ELSE s

\* source == source and strcmp() == 0 of id and of instance
stats_counter_equal(sc1, sc2) ==
  sc1.source = sc2.source /\ sc1.id = sc2.id /\ sc1.instance = sc2.instance

\* GLib's g_str_hash over the bytes of the strings of the model:
\* h = 5381, then h = h * 33 + c for every byte.  The strings of the model
\* have at most one byte, so h stays far below 2^32 and never wraps.
g_str_hash(str) ==
  LET bytes == CASE str = "" -> <<>> [] str = "a" -> <<97>> [] str = "x" -> <<120>>
      RECURSIVE loop(_, _)
      loop(h, i) == IF i > Len(bytes) THEN h ELSE loop(h * 33 + bytes[i], i + 1)
  IN loop(5381, 1)

\* the guint sum of the two string hashes and the packed source (below 2^32
\* for the keys of the model)
stats_counter_hash(sc) == g_str_hash(sc.id) + g_str_hash(sc.instance) + sc.source

\* g_hash_table_lookup: the stored cluster with the hash of key that is
\* equal to key, or NULL
g_hash_table_lookup(R, key) ==
  LET Match(a) == /\ stats_counter_equal(R.heap[a], key)
                  /\ stats_counter_hash(R.heap[a]) = stats_counter_hash(key)
      found == {a \in R.hash : Match(a)}
  IN IF found = {} THEN NULL ELSE CHOOSE a \in found : TRUE

\* stats_check_level with the comparison turned around
stats_check_level_reversed(level) ==
  IF stats_options # NULL_OPTIONS
  THEN level >= stats_options.level
  ELSE level = 0

stats_check_level(level) ==
  IF stats_options # NULL_OPTIONS
  THEN stats_options.level >= level
  ELSE level = 0

\* g_new0(StatsCluster, 1) followed by the assignments of stats_add_counter
NewCluster(source, id, instance) ==
  [source |-> source, id |-> id, instance |-> instance, ref_cnt |-> 1,
   live_mask |-> {}, dynamic |-> FALSE,
   counters |-> [ty \in CounterTypes |-> 0]]

\* The result of a structural operation: the registry it leaves, what it
\* returns (sc), its out-parameters (*counter, *new) and the failed assertion.
Res(R, sc, counter, new, abort) ==
  [hash |-> R.hash, heap |-> R.heap, locked |-> R.locked, sc |-> sc,
   counter |-> counter, new |-> new, fatal |-> abort]

\* stats_add_counter looking up the key before the NULL strings are replaced
stats_add_counter_rawkey(R, stats_level, source, id, instance, fresh, garbage) ==
  IF ~stats_check_level(stats_level)
  THEN Res(R, NULL, NULL_ITEM, garbage, "none")
  ELSE LET key == [source |-> source, id |-> id, instance |-> instance]
           sc == g_hash_table_lookup(R, key)
       IN IF sc = NULL
          THEN Res([locked |-> R.locked, hash |-> R.hash \cup {fresh},
                    heap |-> [R.heap EXCEPT ![fresh] =
                                NewCluster(source, NormStr(id), NormStr(instance))]],
                   fresh, NULL_ITEM, TRUE, "none")
          ELSE Res([locked |-> R.locked, hash |-> R.hash,
                    heap |-> [R.heap EXCEPT ![sc].ref_cnt = @ + 1]],
                   sc, NULL_ITEM, (R.heap[sc].ref_cnt = 0), "none")

\* stats_add_counter reporting every cluster it finds as not new
stats_add_counter_notnew(R, stats_level, source, id, instance, fresh, garbage) ==
  IF ~stats_check_level(stats_level)
  THEN Res(R, NULL, NULL_ITEM, garbage, "none")
  ELSE LET key == [source |-> source, id |-> NormStr(id), instance |-> NormStr(instance)]
           sc == g_hash_table_lookup(R, key)
       IN IF sc = NULL
          THEN Res([locked |-> R.locked, hash |-> R.hash \cup {fresh},
                    heap |-> [R.heap EXCEPT ![fresh] = NewCluster(source, key.id, key.instance)]],
                   fresh, NULL_ITEM, TRUE, "none")
          ELSE Res([locked |-> R.locked, hash |-> R.hash,
                    heap |-> [R.heap EXCEPT ![sc].ref_cnt = @ + 1]],
                   sc, NULL_ITEM, FALSE, "none")

\* fresh: the address g_new0 returns if it is called; garbage: the value read
\* from the caller's uninitialized *new when the function returns early.
stats_add_counter(R, stats_level, source, id, instance, fresh, garbage) ==
  IF ~stats_check_level(stats_level)
  THEN Res(R, NULL, NULL_ITEM, garbage, "none")
  ELSE LET key == [source |-> source, id |-> NormStr(id), instance |-> NormStr(instance)]
           sc == g_hash_table_lookup(R, key)
       IN IF sc = NULL
          THEN Res([locked |-> R.locked, hash |-> R.hash \cup {fresh},
                    heap |-> [R.heap EXCEPT ![fresh] = NewCluster(source, key.id, key.instance)]],
                   fresh, NULL_ITEM, TRUE, "none")
          ELSE Res([locked |-> R.locked, hash |-> R.hash,
                    heap |-> [R.heap EXCEPT ![sc].ref_cnt = @ + 1]],
                   sc, NULL_ITEM, (R.heap[sc].ref_cnt = 0), "none")

Item(sc, type) == [sc |-> sc, type |-> type]

\* stats_register_counter marking the cluster it registers on as static
stats_register_counter_static(R, stats_level, source, id, instance, type, fresh) ==
  IF ~R.locked THEN Res(R, NULL, NULL_ITEM, FALSE, "g_assert(stats_locked)")
  ELSE IF ~(type < SC_TYPE_MAX) THEN Res(R, NULL, NULL_ITEM, FALSE, "g_assert(type < SC_TYPE_MAX)")
  ELSE LET Added(a) ==
             IF a.sc = NULL
             THEN Res(a, NULL, NULL_ITEM, FALSE, "none")
             ELSE Res([locked |-> R.locked, hash |-> a.hash,
                       heap |-> [a.heap EXCEPT ![a.sc].live_mask = @ \cup {type},
                                               ![a.sc].dynamic = FALSE]],
                      a.sc, Item(a.sc, type), a.new, "none")
       IN Added(stats_add_counter(R, stats_level, source, id, instance, fresh, FALSE))

\* the registry and the handle after stats_register_counter
stats_register_counter(R, stats_level, source, id, instance, type, fresh) ==
  IF ~R.locked THEN Res(R, NULL, NULL_ITEM, FALSE, "g_assert(stats_locked)")
  ELSE IF ~(type < SC_TYPE_MAX) THEN Res(R, NULL, NULL_ITEM, FALSE, "g_assert(type < SC_TYPE_MAX)")
  ELSE LET Added(a) ==
             IF a.sc = NULL
             THEN Res(a, NULL, NULL_ITEM, FALSE, "none")
             ELSE Res([locked |-> R.locked, hash |-> a.hash,
                       heap |-> [a.heap EXCEPT ![a.sc].live_mask = @ \cup {type}]],
                      a.sc, Item(a.sc, type), a.new, "none")
       IN Added(stats_add_counter(R, stats_level, source, id, instance, fresh, FALSE))

stats_register_dynamic_counter(R, stats_level, source, id, instance, type, fresh, garbage) ==
  IF ~R.locked THEN Res(R, NULL, NULL_ITEM, FALSE, "g_assert(stats_locked)")
  ELSE IF ~(type < SC_TYPE_MAX) THEN Res(R, NULL, NULL_ITEM, FALSE, "g_assert(type < SC_TYPE_MAX)")
  ELSE LET Added(a) ==
             IF a.sc = NULL
             THEN Res(a, NULL, NULL_ITEM, a.new, "none")
             ELSE IF ~a.new /\ ~a.heap[a.sc].dynamic
             THEN Res(a, NULL, NULL_ITEM, a.new, "g_assert_not_reached")
             ELSE Res([locked |-> R.locked, hash |-> a.hash,
                       heap |-> [a.heap EXCEPT ![a.sc].dynamic = TRUE,
                                               ![a.sc].live_mask = @ \cup {type}]],
                      a.sc, Item(a.sc, type), a.new, "none")
       IN Added(stats_add_counter(R, stats_level, source, id, instance, fresh, garbage))

\* stats_register_associated_counter without its ref_cnt++
stats_register_associated_counter_noref(R, sc, type) ==
  IF ~R.locked THEN Res(R, sc, NULL_ITEM, FALSE, "g_assert(stats_locked)")
  ELSE IF sc = NULL THEN Res(R, sc, NULL_ITEM, FALSE, "none")
  ELSE IF ~R.heap[sc].dynamic THEN Res(R, sc, NULL_ITEM, FALSE, "g_assert(sc->dynamic)")
  ELSE Res([locked |-> R.locked, hash |-> R.hash,
            heap |-> [R.heap EXCEPT ![sc].live_mask = @ \cup {type}]],
           sc, Item(sc, type), FALSE, "none")

stats_register_associated_counter(R, sc, type) ==
  IF ~R.locked THEN Res(R, sc, NULL_ITEM, FALSE, "g_assert(stats_locked)")
  ELSE IF sc = NULL THEN Res(R, sc, NULL_ITEM, FALSE, "none")
  ELSE IF ~R.heap[sc].dynamic THEN Res(R, sc, NULL_ITEM, FALSE, "g_assert(sc->dynamic)")
  ELSE Res([locked |-> R.locked, hash |-> R.hash,
            heap |-> [R.heap EXCEPT ![sc].live_mask = @ \cup {type},
                                    ![sc].ref_cnt = @ + 1]],
           sc, Item(sc, type), FALSE, "none")

\* stats_unregister_counter looking up the key as the caller spelled it
stats_unregister_counter_rawkey(R, source, id, instance, type, counter) ==
  IF ~R.locked THEN Res(R, NULL, counter, FALSE, "g_assert(stats_locked)")
  ELSE IF counter = NULL_ITEM THEN Res(R, NULL, counter, FALSE, "none")
  ELSE LET key == [source |-> source, id |-> id, instance |-> instance]
           sc == g_hash_table_lookup(R, key)
       IN IF ~(sc # NULL /\ type \in R.heap[sc].live_mask /\ Item(sc, type) = counter)
          THEN Res(R, sc, counter, FALSE, "g_assert(sc && live_mask && counter)")
          ELSE Res([locked |-> R.locked, hash |-> R.hash,
                    heap |-> [R.heap EXCEPT ![sc].ref_cnt = @ - 1]],
                   sc, NULL_ITEM, FALSE, "none")

\* stats_unregister_counter taking the kind out of live_mask as well
stats_unregister_counter_clearing(R, source, id, instance, type, counter) ==
  IF ~R.locked THEN Res(R, NULL, counter, FALSE, "g_assert(stats_locked)")
  ELSE IF counter = NULL_ITEM THEN Res(R, NULL, counter, FALSE, "none")
  ELSE LET key == [source |-> source, id |-> NormStr(id), instance |-> NormStr(instance)]
           sc == g_hash_table_lookup(R, key)
       IN IF ~(sc # NULL /\ type \in R.heap[sc].live_mask /\ Item(sc, type) = counter)
          THEN Res(R, sc, counter, FALSE, "g_assert(sc && live_mask && counter)")
          ELSE Res([locked |-> R.locked, hash |-> R.hash,
                    heap |-> [R.heap EXCEPT ![sc].ref_cnt = @ - 1,
                                            ![sc].live_mask = @ \ {type}]],
                   sc, NULL_ITEM, FALSE, "none")

\* counter: the value of the caller's handle; the result's counter is the
\* value the call leaves in it.
stats_unregister_counter(R, source, id, instance, type, counter) ==
  IF ~R.locked THEN Res(R, NULL, counter, FALSE, "g_assert(stats_locked)")
  ELSE IF counter = NULL_ITEM THEN Res(R, NULL, counter, FALSE, "none")
  ELSE LET key == [source |-> source, id |-> NormStr(id), instance |-> NormStr(instance)]
           sc == g_hash_table_lookup(R, key)
       IN IF ~(sc # NULL /\ type \in R.heap[sc].live_mask /\ Item(sc, type) = counter)
          THEN Res(R, sc, counter, FALSE, "g_assert(sc && live_mask && counter)")
          ELSE Res([locked |-> R.locked, hash |-> R.hash,
                    heap |-> [R.heap EXCEPT ![sc].ref_cnt = @ - 1]],
                   sc, NULL_ITEM, FALSE, "none")

\* stats_unregister_dynamic_counter without its assertion
stats_unregister_dynamic_counter_unchecked(R, sc, type, counter) ==
  IF ~R.locked THEN Res(R, sc, counter, FALSE, "g_assert(stats_locked)")
  ELSE IF sc = NULL THEN Res(R, sc, counter, FALSE, "none")
  ELSE Res([locked |-> R.locked, hash |-> R.hash,
            heap |-> [R.heap EXCEPT ![sc].ref_cnt = @ - 1]],
           sc, counter, FALSE, "none")

\* the handle is not nulled, and a NULL cluster, not a NULL handle, is
\* what the function tolerates
stats_unregister_dynamic_counter(R, sc, type, counter) ==
  IF ~R.locked THEN Res(R, sc, counter, FALSE, "g_assert(stats_locked)")
  ELSE IF sc = NULL THEN Res(R, sc, counter, FALSE, "none")
  ELSE IF ~(type \in R.heap[sc].live_mask /\ Item(sc, type) = counter)
  THEN Res(R, sc, counter, FALSE, "g_assert(sc && live_mask && counter)")
  ELSE Res([locked |-> R.locked, hash |-> R.hash,
            heap |-> [R.heap EXCEPT ![sc].ref_cnt = @ - 1]],
           sc, counter, FALSE, "none")


\* stats_counter_inc storing 1 whatever the cell holds
stats_counter_inc_stale(h, counter) ==
  IF counter = NULL_ITEM THEN h
  ELSE [h EXCEPT ![counter.sc].counters[counter.type] = 1]

\* stats_counter_inc / stats_counter_set of a cell: a NULL handle is tolerated
stats_counter_inc(h, counter) ==
  IF counter = NULL_ITEM THEN h
  ELSE [h EXCEPT ![counter.sc].counters[counter.type] = @ + 1]

stats_counter_set(h, counter, value) ==
  IF counter = NULL_ITEM THEN h
  ELSE [h EXCEPT ![counter.sc].counters[counter.type] = value]

WithHeap(r, h) == [hash |-> r.hash, heap |-> h, locked |-> r.locked]

\* the stamp part with the test of the timestamp left out
RegisterStamp_always(R, handle, timestamp) ==
  LET Stamped(r2) ==
        IF r2.fatal # "none" THEN r2
        ELSE stats_unregister_dynamic_counter(
               WithHeap(r2, stats_counter_set(r2.heap, r2.counter, timestamp)),
               handle, SC_TYPE_STAMP, r2.counter)
  IN Stamped(stats_register_associated_counter(R, handle, SC_TYPE_STAMP))

\* The stamp part of stats_register_and_increment_dynamic_counter
RegisterStamp(R, handle, timestamp) ==
  IF ~(timestamp >= 0) THEN Res(R, handle, NULL_ITEM, FALSE, "none")
  ELSE LET Stamped(r2) ==
             IF r2.fatal # "none" THEN r2
             ELSE stats_unregister_dynamic_counter(
                    WithHeap(r2, stats_counter_set(r2.heap, r2.counter, timestamp)),
                    handle, SC_TYPE_STAMP, r2.counter)
       IN Stamped(stats_register_associated_counter(R, handle, SC_TYPE_STAMP))

stats_register_and_increment_dynamic_counter(R, stats_level, source_mask, id, instance, timestamp, fresh, garbage) ==
  IF ~R.locked THEN Res(R, NULL, NULL_ITEM, FALSE, "g_assert(stats_locked)")
  ELSE LET Unregistered(r1, r4) == Res(r4, r1.sc, NULL_ITEM, r1.new, r4.fatal)
           Stamped(r1, r3) ==
             IF r3.fatal # "none" THEN r3
             ELSE Unregistered(r1, stats_unregister_dynamic_counter(r3, r1.sc,
                                     SC_TYPE_PROCESSED, r1.counter))
           Registered(r1) ==
             IF r1.fatal # "none" THEN r1
             ELSE Stamped(r1, RegisterStamp(WithHeap(r1, stats_counter_inc(r1.heap, r1.counter)),
                                            r1.sc, timestamp))
       IN Registered(stats_register_dynamic_counter(R, stats_level, source_mask, id, instance,
                                                    SC_TYPE_PROCESSED, fresh, garbage))

(***************************************************************************)
(* The publish-and-prune pass.                                             *)
(***************************************************************************)
\* stats_counter_is_expired without the test of sc->dynamic
stats_counter_is_expired_nodynamic(sc, tnow) ==
  IF sc.ref_cnt > 0 THEN FALSE
  ELSE IF SC_TYPE_STAMP \notin sc.live_mask THEN FALSE
  ELSE sc.counters[SC_TYPE_STAMP] <= tnow - stats_options.lifetime

\* stats_counter_is_expired without the test of sc->ref_cnt
stats_counter_is_expired_noref(sc, tnow) ==
  IF ~sc.dynamic THEN FALSE
  ELSE IF SC_TYPE_STAMP \notin sc.live_mask THEN FALSE
  ELSE sc.counters[SC_TYPE_STAMP] <= tnow - stats_options.lifetime

\* stats_counter_is_expired with < for <=
stats_counter_is_expired_strict(sc, tnow) ==
  IF ~sc.dynamic THEN FALSE
  ELSE IF sc.ref_cnt > 0 THEN FALSE
  ELSE IF SC_TYPE_STAMP \notin sc.live_mask THEN FALSE
  ELSE sc.counters[SC_TYPE_STAMP] < tnow - stats_options.lifetime

stats_counter_is_expired(sc, tnow) ==
  IF ~sc.dynamic THEN FALSE
  ELSE IF sc.ref_cnt > 0 THEN FALSE
  ELSE IF SC_TYPE_STAMP \notin sc.live_mask THEN FALSE
  ELSE sc.counters[SC_TYPE_STAMP] <= tnow - stats_options.lifetime

(***************************************************************************)
(* Formatting of the "Log statistics" event.  An event record is the       *)
(* sequence of its tags, a tag is [name, value]; NULL_EVENT is the NULL    *)
(* EVTREC pointer.                                                         *)
(***************************************************************************)
tag_names == <<"dropped", "processed", "stored", "suppressed", "stamp">>

source_names ==
  <<"none", "file", "pipe", "tcp", "udp", "tcp6", "udp6", "unix-stream",
    "unix-dgram", "syslog", "network", "internal", "logstore", "program",
    "sql", "sun-streams", "usertty", "group", "center", "host", "global",
    "mongodb", "class", "rule_id", "tag", "severity", "facility", "sender",
    "smtp", "amqp", "stomp", "redis", "snmp">>

\* source & flag is tested as (source \div flag) % 2, flag being one bit
stats_get_direction_name(source) ==
  IF (source \div SCS_SOURCE) % 2 = 1 THEN "src."
  ELSE IF (source \div SCS_DESTINATION) % 2 = 1 THEN "dst." ELSE ""

stats_get_source_name(source) == source_names[(source % (SCS_SOURCE_MASK + 1)) + 1]

stats_get_tag_name(type) == tag_names[type + 1]

\* the name built as for every other component, the group not set apart
stats_get_direction_and_source_name_plain(source) ==
  stats_get_direction_name(source) \o stats_get_source_name(source)

\* "SIGABRT" stands for the abort of g_assert_not_reached()
stats_get_direction_and_source_name(source) ==
  IF source % (SCS_SOURCE_MASK + 1) = SCS_GROUP
  THEN IF (source \div SCS_SOURCE) % 2 = 1 THEN "source"
       ELSE IF (source \div SCS_DESTINATION) % 2 = 1 THEN "destination"
       ELSE "SIGABRT"
  ELSE stats_get_direction_name(source) \o stats_get_source_name(source)

\* the tag with the comma printed whatever id and instance are
stats_log_format_tag_always_comma(sc, type) ==
  [name |-> stats_get_tag_name(type),
   value |-> stats_get_direction_and_source_name(sc.source) \o "(" \o sc.id
             \o "," \o sc.instance \o ")=" \o ToString(sc.counters[type])]

\* the tag evt_tag_printf builds for one counter: "%s(%s%s%s)=%u"
stats_log_format_tag(sc, type) ==
  [name |-> stats_get_tag_name(type),
   value |-> stats_get_direction_and_source_name(sc.source) \o "(" \o sc.id
             \o (IF sc.id # "" /\ sc.instance # "" THEN "," ELSE "")
             \o sc.instance \o ")=" \o ToString(sc.counters[type])]

\* the process died while the event record was being built
Died(e) == e = DeadEvent("SIGSEGV") \/ e = DeadEvent("SIGABRT")

\* The event record after stats_log_format_counter.  With e = NULL the
\* eventlog library writes through a NULL pointer in evt_rec_add_tag: the
\* process dies (ub = "crash"), or the write goes unnoticed.
stats_log_format_counter(sc, type, e, ub) ==
  IF Died(e) THEN e
  ELSE IF stats_get_direction_and_source_name(sc.source) = "SIGABRT" THEN DeadEvent("SIGABRT")
  ELSE IF e = NULL_EVENT THEN (IF ub = "crash" THEN DeadEvent("SIGSEGV") ELSE e)
  ELSE Append(e, stats_log_format_tag(sc, type))

\* stats_cluster_foreach_counter: the live counters in ascending type order
RECURSIVE stats_cluster_foreach_counter(_, _, _, _)
stats_cluster_foreach_counter(sc, type, e, ub) ==
  IF type >= SC_TYPE_MAX THEN e
  ELSE stats_cluster_foreach_counter(sc, type + 1,
         IF type \in sc.live_mask THEN stats_log_format_counter(sc, type, e, ub) ELSE e, ub)

stats_log_format_cluster(sc, e, ub) == stats_cluster_foreach_counter(sc, 0, e, ub)

\* stats_prune_counter keeping the latest stamp instead of the oldest
stats_prune_counter_latest(sc, s) ==
  IF stats_counter_is_expired(sc, s.now)
  THEN LET tstamp == sc.counters[SC_TYPE_STAMP]
       IN [s EXCEPT !.oldest_counter =
                       IF s.oldest_counter = 0 \/ s.oldest_counter < tstamp
                       THEN tstamp ELSE @,
                    !.dropped_counters = @ + 1]
  ELSE s

\* the StatsTimerState after stats_prune_counter has looked at sc
stats_prune_counter(sc, s) ==
  IF stats_counter_is_expired(sc, s.now)
  THEN LET tstamp == sc.counters[SC_TYPE_STAMP]
       IN [s EXCEPT !.oldest_counter =
                       IF s.oldest_counter = 0 \/ s.oldest_counter > tstamp
                       THEN tstamp ELSE @,
                    !.dropped_counters = @ + 1]
  ELSE s

\* the StatsTimerState after stats_format_and_prune_cluster has visited sc:
\* the cluster is formatted whether or not an event record was created
stats_format_and_prune_cluster(sc, s, ub) ==
  LET Formatted(e) == IF Died(e) THEN [s EXCEPT !.stats_event = e]
                      ELSE stats_prune_counter(sc, [s EXCEPT !.stats_event = e])
  IN Formatted(stats_log_format_cluster(sc, s.stats_event, ub))

\* g_hash_table_foreach_remove with stats_format_and_prune_cluster, visiting
\* the clusters in the order given; w is [hash, heap, st].  The walk ends
\* where the process dies.
RECURSIVE stats_foreach_cluster_remove(_, _, _)
stats_foreach_cluster_remove(order, w, ub) ==
  IF order = <<>> THEN w
  ELSE LET a == Head(order)
           sc == w.heap[a]
           Visited(s) ==
             IF Died(s.stats_event) THEN [w EXCEPT !.st = s]
             ELSE stats_foreach_cluster_remove(Tail(order),
                    IF stats_counter_is_expired(sc, s.now)
                    THEN [hash |-> w.hash \ {a},
                          heap |-> [w.heap EXCEPT ![a] = FREE],
                          st |-> s]
                    ELSE [w EXCEPT !.st = s], ub)
       \* the state after the visit is computed once
       IN CHOOSE r \in {Visited(s) : s \in {stats_format_and_prune_cluster(sc, w.st, ub)}} : TRUE

\* the orders in which the hash table may be walked
Orders(S) == {o \in [1..Cardinality(S) -> S] : \A i, j \in 1..Cardinality(S) : o[i] = o[j] => i = j}

(***************************************************************************)
(* The iteration helpers offered to other modules.  The visitor is         *)
(* modelled by what it is called with (visited); the predicate func of the *)
(* removing walk by the set of clusters it returns TRUE for.               *)
(***************************************************************************)
stats_foreach_cluster(R) ==
  IF ~R.locked THEN [hash |-> R.hash, heap |-> R.heap, visited |-> {},
                     fatal |-> "g_assert(stats_locked)"]
  ELSE [hash |-> R.hash, heap |-> R.heap, visited |-> R.hash, fatal |-> "none"]

\* g_hash_table_foreach_remove(counter_hash, ...): every cluster is visited,
\* those func returns TRUE for are removed and freed
stats_foreach_cluster_remove_with(R, func) ==
  [hash |-> R.hash \ func,
   heap |-> [a \in Addrs |-> IF a \in R.hash \cap func THEN FREE ELSE R.heap[a]],
   visited |-> R.hash, fatal |-> "none"]

\* the visitor is called with every live counter of every cluster
stats_foreach_counter(R) ==
  IF ~R.locked THEN [hash |-> R.hash, heap |-> R.heap, visited |-> {},
                     fatal |-> "g_assert(stats_locked)"]
  ELSE LET Counters(r) ==
             [r EXCEPT !.visited = {Item(a, ty) : a \in r.visited, ty \in CounterTypes}
                                   \cap {c \in [sc : r.visited, type : CounterTypes] :
                                           c.type \in R.heap[c.sc].live_mask}]
       IN Counters(stats_foreach_cluster(R))



(***************************************************************************)
(* Calls of the structural operations.  R is the registry as the call      *)
(* finds it, in the sets of argument values the caller draws from.         *)
(***************************************************************************)
Running == fatal = "none"

\* the registry as seen between stats_lock() and stats_unlock()
Locked(R) == [R EXCEPT !.locked = TRUE]

\* the heap slots g_new0 may return
Allocs == {a \in Addrs : heap[a] = FREE}
Key(source, id, instance) ==
  [source |-> source, id |-> NormStr(id), instance |-> NormStr(instance)]
\* g_new0 returns the lowest unused slot; when none is left the model stops
\* short of the allocation
Fresh == IF Allocs = {} THEN NULL ELSE CHOOSE a \in Allocs : \A b \in Allocs : a <= b
Allocated(r) == NULL \notin r.hash

\* what the uninitialized local_new may hold when stats_add_counter returns
\* without assigning it
Garbage(stats_level) == IF stats_check_level(stats_level) THEN {FALSE} ELSE BOOLEAN

Commit(r) ==
  /\ counter_hash' = r.hash
  /\ heap' = r.heap
  /\ fatal' = r.fatal
  /\ UNCHANGED <<st, stats_options, stats_timer, stats_mutex, stats_locked, now, incs>>

Take(counter) ==
  IF counter = NULL_ITEM THEN held
  ELSE [held EXCEPT ![counter.sc][counter.type] = @ + 1]
Give(counter) ==
  IF counter = NULL_ITEM THEN held
  ELSE [held EXCEPT ![counter.sc][counter.type] = @ - 1]

Bounded(r) == IF r.sc = NULL THEN TRUE ELSE r.heap[r.sc].ref_cnt <= MaxRef

RegisterCounterCall(R, in) ==
  \E stats_level \in in.levels, arg \in in.static :
    \E r \in {stats_register_counter(R, stats_level, arg.source, arg.id, arg.instance,
                                      arg.type, Fresh)} :
       /\ Allocated(r)
       /\ Bounded(r)
       /\ Commit(r)
       /\ held' = IF r.fatal = "none" THEN Take(r.counter) ELSE held
       /\ call' = [op |-> "stats_register_counter", counter |-> r.counter]

RegisterDynamicCounterCall(R, in) ==
  \E stats_level \in in.levels, arg \in in.dynamic, type \in in.types :
   \E garbage \in Garbage(stats_level) :
    \E r \in {stats_register_dynamic_counter(R, stats_level, arg.source, arg.id,
                                              arg.instance, type, Fresh, garbage)} :
       /\ Allocated(r)
       /\ Bounded(r)
       /\ Commit(r)
       /\ held' = IF r.fatal = "none" THEN Take(r.counter) ELSE held
       /\ call' = [op |-> "stats_register_dynamic_counter", counter |-> r.counter,
                   sc |-> r.sc, new |-> r.new]

\* the cluster handles a caller has: NULL from a gated registration, or a
\* dynamic cluster it has a registration on
ClusterHandles ==
  {NULL} \cup {a \in counter_hash : heap[a].dynamic /\ \E ty \in CounterTypes : held[a][ty] > 0}

RegisterAssociatedCounterCall(R, in) ==
  \E sc \in ClusterHandles, type \in in.types :
    \E r \in {stats_register_associated_counter(R, sc, type)} :
       /\ Bounded(r)
       /\ Commit(r)
       /\ held' = IF r.fatal = "none" THEN Take(r.counter) ELSE held
       /\ call' = [op |-> "stats_register_associated_counter", counter |-> r.counter]

\* the handles a caller passes to an unregistration: NULL, or a cell it has
\* an outstanding registration on
CellHandles ==
  {NULL_ITEM} \cup {Item(a, ty) : a \in counter_hash, ty \in CounterTypes}
Outstanding(counter) ==
  IF counter = NULL_ITEM THEN TRUE ELSE held[counter.sc][counter.type] > 0

\* the type a caller passes with a handle
TypeOf(counter) == IF counter = NULL_ITEM THEN SC_TYPE_PROCESSED ELSE counter.type

\* the caller names the key it registered the handle with
KeyOf(counter, source, id, instance) ==
  IF counter = NULL_ITEM THEN TRUE
  ELSE stats_counter_equal(heap[counter.sc], Key(source, id, instance))

UnregisterCounterCall(R, in) ==
  \E counter \in CellHandles, arg \in in.keys :
    \E r \in {stats_unregister_counter(R, arg.source, arg.id, arg.instance,
                                        TypeOf(counter), counter)} :
       /\ Outstanding(counter)
       /\ KeyOf(counter, arg.source, arg.id, arg.instance)
       /\ Commit(r)
       /\ held' = IF r.fatal = "none" THEN Give(counter) ELSE held
       /\ call' = [op |-> "stats_unregister_counter", counter |-> r.counter]

UnregisterDynamicCounterCall(R, in) ==
  \E counter \in CellHandles :
    \E r \in {stats_unregister_dynamic_counter(R, counter.sc, TypeOf(counter), counter)} :
       /\ Outstanding(counter)
       /\ counter.sc \in ClusterHandles
       /\ Commit(r)
       /\ held' = IF r.fatal = "none" THEN Give(counter) ELSE held
       /\ call' = [op |-> "stats_unregister_dynamic_counter", counter |-> r.counter]

RegisterAndIncrementCall(R, in) ==
  \E stats_level \in in.levels, arg \in in.dynamic, timestamp \in in.timestamps :
   \E garbage \in Garbage(stats_level) :
    \E r \in {stats_register_and_increment_dynamic_counter(R, stats_level, arg.source,
                 arg.id, arg.instance, timestamp, Fresh, garbage)} :
       /\ Allocated(r)
       /\ IF r.sc = NULL THEN TRUE
          ELSE r.heap[r.sc].counters[SC_TYPE_PROCESSED] <= MaxCount
       /\ Commit(r)
       /\ held' = held
       /\ call' = [op |-> "stats_register_and_increment_dynamic_counter", sc |-> r.sc]

(***************************************************************************)
(* The timer of the scheduler.  A timer is [handler, cookie, registered,   *)
(* pending]: registered is what iv_timer_registered() reads in the struct, *)
(* pending the number of entries the event loop holds for the timer.  The  *)
(* time at which an entry expires is left open.                            *)
(***************************************************************************)
stats_timer_rearm(timer) ==
  IF timer.cookie > 0 THEN [timer EXCEPT !.registered = TRUE, !.pending = @ + 1] ELSE timer

\* IV_TIMER_INIT marks the struct as not registered; it does not take an
\* entry out of the event loop
stats_timer_init(timer, handler, freq) ==
  [handler |-> handler, cookie |-> freq, registered |-> FALSE, pending |-> timer.pending]

stats_timer_kill(timer) ==
  IF timer.handler = "NULL" THEN timer
  ELSE IF timer.registered THEN [timer EXCEPT !.registered = FALSE, !.pending = @ - 1]
  ELSE timer

\* stats_timer_reinit halving every lifetime, the small ones included
stats_timer_reinit_halved(timer, options) ==
  LET freq == IF options.log_freq # 0 THEN options.log_freq ELSE options.lifetime \div 2
  IN stats_timer_rearm(stats_timer_init(stats_timer_kill(timer), "stats_timer_elapsed", freq))

\* stats_timer_reinit without the stats_timer_kill
stats_timer_reinit_nokill(timer, options) ==
  LET freq == IF options.log_freq # 0 THEN options.log_freq
              ELSE IF options.lifetime <= 1 THEN 1 ELSE options.lifetime \div 2
  IN stats_timer_rearm(stats_timer_init(timer, "stats_timer_elapsed", freq))

\* the timer after stats_timer_reinit has read the options
stats_timer_reinit(timer, options) ==
  LET freq == IF options.log_freq # 0 THEN options.log_freq
              ELSE IF options.lifetime <= 1 THEN 1 ELSE options.lifetime \div 2
  IN stats_timer_rearm(stats_timer_init(stats_timer_kill(timer), "stats_timer_elapsed", freq))

(***************************************************************************)
(* stats_publish_and_prune_counters: it reads the clock, takes the lock,   *)
(* walks the hash table in some order, releases the lock and sends its     *)
(* messages.                                                               *)
(***************************************************************************)
\* what a write through a NULL EVTREC may do, when there is one
NullEventOutcomes(publish) == IF publish THEN {"ignored"} ELSE {"crash", "ignored"}

\* the walk of a table: a destroyed table has no nodes to visit
Nodes(hash) == IF hash = NULL_HASH THEN {} ELSE hash

\* timer: the pass is run by the handler of the timer; call.tags is the set
\* of the tags of the event sent
PublishAndPrune(timer) ==
  /\ Running /\ stats_mutex = NoThread
  /\ stats_options # NULL_OPTIONS
  /\ \E order \in Orders(Nodes(counter_hash)), publish \in {stats_options.log_freq > 0} :
       \E ub \in NullEventOutcomes(publish) :
       \E w \in {stats_foreach_cluster_remove(order,
                     [hash |-> counter_hash, heap |-> heap,
                      st |-> [now |-> now, oldest_counter |-> 0, dropped_counters |-> 0,
                              stats_event |-> IF publish THEN <<>> ELSE NULL_EVENT]], ub)} :
          /\ counter_hash' = w.hash
          /\ heap' = w.heap
          /\ fatal' = IF Died(w.st.stats_event) THEN w.st.stats_event[1].name ELSE fatal
          /\ call' = IF Died(w.st.stats_event)
                     THEN [op |-> "stats_publish_and_prune_counters", timer |-> timer, event |-> FALSE, tags |-> {}, notice |-> FALSE,
                           dropped |-> w.st.dropped_counters, oldest |-> w.st.oldest_counter]
                     ELSE [op |-> "stats_publish_and_prune_counters", timer |-> timer, event |-> publish,
                           tags |-> IF publish THEN {w.st.stats_event[i] : i \in DOMAIN w.st.stats_event}
                                    ELSE {},
                           notice |-> (w.st.dropped_counters > 0),
                           dropped |-> w.st.dropped_counters, oldest |-> w.st.oldest_counter]
  /\ UNCHANGED <<st, stats_options, stats_mutex, stats_locked, pc, now, held, incs>>

stats_publish_and_prune_counters ==
  /\ counter_hash # NULL_HASH
  /\ PublishAndPrune(FALSE)
  /\ UNCHANGED stats_timer

\* the event loop takes an entry of the timer, marks the timer as not
\* registered and runs its handler; the handler arms it again
stats_timer_elapsed ==
  /\ stats_timer.pending > 0
  /\ PublishAndPrune(TRUE)
  /\ stats_timer' = IF fatal' = "none"
                    THEN stats_timer_rearm([stats_timer EXCEPT !.registered = FALSE,
                                                               !.pending = @ - 1])
                    ELSE stats_timer

(***************************************************************************)
(* Options and the clock.                                                  *)
(***************************************************************************)
stats_reinit(in) ==
  /\ Running /\ counter_hash # NULL_HASH
  /\ \E level \in in.levels, log_freq \in in.log_freqs, lifetime \in in.lifetimes :
       \E options \in {[level |-> level, log_freq |-> log_freq, lifetime |-> lifetime]} :
          /\ stats_options' = options
          /\ stats_timer' = stats_timer_reinit(stats_timer, options)
  /\ call' = [op |-> "stats_reinit"]
  /\ UNCHANGED <<st, counter_hash, heap, stats_mutex, stats_locked, pc, now, held, incs, fatal>>

\* g_hash_table_destroy frees every cluster through stats_counter_free
stats_destroy ==
  /\ Running /\ counter_hash # NULL_HASH /\ stats_mutex = NoThread
  /\ counter_hash' = NULL_HASH
  /\ heap' = [a \in Addrs |-> FREE]
  /\ call' = [op |-> "stats_destroy"]
  /\ UNCHANGED <<st, stats_options, stats_timer, stats_mutex, stats_locked, pc, now, held, incs, fatal>>

Tick ==
  /\ Running /\ now < MaxTime
  /\ now' = now + 1
  /\ call' = [op |-> "tick"]
  /\ UNCHANGED <<st, stats_options, stats_timer, counter_hash, heap, stats_mutex, stats_locked, pc, held, incs, fatal>>

(***************************************************************************)
(* The registry used as the module comment asks: every structural          *)
(* operation is called between stats_lock() and stats_unlock().            *)
(***************************************************************************)
\* a timestamp argument: negative, or the time of the message being counted
Timestamps == {-1, now}

\* The callers of the model: a component "a" of the configuration keeps a
\* processed counter of its own (source global), and the counters of sender
\* "a" are registered by several callers, statically and dynamically, with
\* the instance given as NULL or as the empty string.
Keys == [source : Sources, id : Ids, instance : Instances]
StaticArgs ==
  {k \in [source : Sources, id : Ids, instance : Instances, type : RegTypes] :
     k.source = SCS_GLOBAL => (k.type = SC_TYPE_PROCESSED /\ k.instance = NULL_STR)}
DynamicKeys == {k \in Keys : k.source = SCS_SENDER}

MainIn == [levels |-> Levels, keys |-> Keys, static |-> StaticArgs, dynamic |-> DynamicKeys,
           types |-> RegTypes, timestamps |-> Timestamps,
           log_freqs |-> LogFreqs, lifetimes |-> Lifetimes]

\* stats_lock(); the call; stats_unlock()
Batch == Running /\ counter_hash # NULL_HASH /\ stats_mutex = NoThread /\ UNCHANGED pc

RegisterCounter == Batch /\ RegisterCounterCall(Locked(Registry), MainIn)
RegisterDynamicCounter == Batch /\ RegisterDynamicCounterCall(Locked(Registry), MainIn)
RegisterAssociatedCounter == Batch /\ RegisterAssociatedCounterCall(Locked(Registry), MainIn)
UnregisterCounter == Batch /\ UnregisterCounterCall(Locked(Registry), MainIn)
UnregisterDynamicCounter == Batch /\ UnregisterDynamicCounterCall(Locked(Registry), MainIn)
RegisterAndIncrement == Batch /\ RegisterAndIncrementCall(Locked(Registry), MainIn)

Reinit == stats_reinit(MainIn)

Next ==
  \/ RegisterCounter
  \/ RegisterDynamicCounter
  \/ RegisterAssociatedCounter
  \/ UnregisterCounter
  \/ UnregisterDynamicCounter
  \/ RegisterAndIncrement
  \/ stats_publish_and_prune_counters
  \/ Reinit
  \/ Tick

Spec == Init /\ [][Next]_vars

(***************************************************************************)
(* The registry as the periodic pass meets it: the configuration holds a   *)
(* static counter of the sender "x" without direction (no id, instance     *)
(* "x"); the messages of the source senders "x" and "a","x" are counted    *)
(* dynamically and stamped with the time; the options are reloaded with a  *)
(* log_freq of -1, 0 or 1 and a lifetime of 0; the event loop runs the     *)
(* timer; stats_destroy ends the use of the registry.                      *)
(***************************************************************************)
PublishIn ==
  [levels |-> {0},
   static |-> {[source |-> SCS_SENDER, id |-> NULL_STR, instance |-> "x", type |-> SC_TYPE_PROCESSED]},
   dynamic |-> {[source |-> SCS_SOURCE + SCS_SENDER, id |-> NULL_STR, instance |-> "x"],
                [source |-> SCS_SOURCE + SCS_SENDER, id |-> "a", instance |-> "x"]},
   timestamps |-> {-1, now},
   log_freqs |-> {-1, 0, 1}, lifetimes |-> {0}]

PublishRegisterCounter == Batch /\ RegisterCounterCall(Locked(Registry), PublishIn)
PublishRegisterAndIncrement == Batch /\ RegisterAndIncrementCall(Locked(Registry), PublishIn)
PublishReinit == stats_reinit(PublishIn)

NextPublish ==
  \/ PublishRegisterCounter
  \/ PublishRegisterAndIncrement
  \/ stats_publish_and_prune_counters
  \/ stats_timer_elapsed
  \/ PublishReinit
  \/ stats_destroy
  \/ Tick

SpecPublish == Init /\ [][NextPublish]_vars

\* the event loop runs the handler of a timer that stays armed
FairPublish == SpecPublish /\ WF_vars(stats_timer_elapsed)

(***************************************************************************)
(* The registry as the keys of its callers meet in it: the counter of the  *)
(* sender "x" is registered and unregistered with and without the source   *)
(* flag, its id given as NULL or as the empty string (or, unregistering,   *)
(* as "a"); the cluster of id "a" is registered dynamically, Processed or  *)
(* Stamp, and given back through stats_unregister_dynamic_counter.         *)
(***************************************************************************)
KeysIn ==
  [levels |-> {0},
   keys |-> [source : {SCS_SENDER, SCS_SOURCE + SCS_SENDER},
             id : {NULL_STR, "", "a"}, instance : {"x"}],
   static |-> [source : {SCS_SENDER, SCS_SOURCE + SCS_SENDER},
               id : {NULL_STR, ""}, instance : {"x"}, type : {SC_TYPE_PROCESSED}],
   dynamic |-> {[source |-> SCS_SENDER, id |-> "a", instance |-> "x"]},
   types |-> {SC_TYPE_PROCESSED, SC_TYPE_STAMP},
   timestamps |-> {-1, now}]

KeysRegisterCounter == Batch /\ RegisterCounterCall(Locked(Registry), KeysIn)
KeysRegisterDynamicCounter == Batch /\ RegisterDynamicCounterCall(Locked(Registry), KeysIn)
KeysUnregisterCounter == Batch /\ UnregisterCounterCall(Locked(Registry), KeysIn)
KeysUnregisterDynamicCounter == Batch /\ UnregisterDynamicCounterCall(Locked(Registry), KeysIn)

NextKeys ==
  \/ KeysRegisterCounter
  \/ KeysRegisterDynamicCounter
  \/ KeysUnregisterCounter
  \/ KeysUnregisterDynamicCounter

SpecKeys == Init /\ [][NextKeys]_vars

\* The callers of the keys with the messages of sender "a": static
\* registrations fill the table, dynamic ones hold the cluster of the sender,
\* messages are counted on it, and the clock advances.
KeysRegisterAndIncrement == Batch /\ RegisterAndIncrementCall(Locked(Registry), KeysIn)

NextIncrement ==
  \/ KeysRegisterCounter
  \/ KeysRegisterDynamicCounter
  \/ KeysUnregisterDynamicCounter
  \/ KeysRegisterAndIncrement
  \/ Tick

SpecIncrement == Init /\ [][NextIncrement]_vars

(***************************************************************************)
(* The registry as the names of its sources are printed: the counters of   *)
(* the group "a" are registered as a source, as a destination, with both   *)
(* direction flags and with none, next to counters of other components     *)
(* with and without a direction; the options ask for the statistics to be  *)
(* logged, and the pass is run.                                            *)
(***************************************************************************)
NamesIn ==
  [levels |-> {0},
   static |-> [source : {SCS_GROUP, SCS_SOURCE + SCS_GROUP, SCS_DESTINATION + SCS_GROUP,
                         SCS_SOURCE + SCS_DESTINATION + SCS_GROUP,
                         SCS_GLOBAL, SCS_DESTINATION + SCS_SENDER,
                         SCS_SOURCE + SCS_DESTINATION + SCS_SENDER},
               id : {"a"}, instance : {""}, type : {SC_TYPE_PROCESSED}],
   log_freqs |-> {1}, lifetimes |-> {1}]

NamesRegisterCounter == Batch /\ RegisterCounterCall(Locked(Registry), NamesIn)
NamesReinit == stats_reinit(NamesIn)

NextNames ==
  \/ NamesRegisterCounter
  \/ NamesReinit
  \/ stats_publish_and_prune_counters

SpecNames == Init /\ [][NextNames]_vars

(***************************************************************************)
(* The registry as another module walks it: counters are registered under  *)
(* the lock, and the three iteration helpers are called by a caller that   *)
(* has taken the lock or has not (lock); call records what the visitor saw.*)
(***************************************************************************)
\* the caller is between stats_lock() and stats_unlock(), or has not called
\* stats_lock()
Caller(lock) == IF lock THEN Locked(Registry) ELSE Registry

IterationCall(op, lock, r) ==
  /\ Running /\ counter_hash # NULL_HASH /\ stats_mutex = NoThread
  /\ counter_hash' = r.hash
  /\ heap' = r.heap
  /\ fatal' = r.fatal
  /\ held' = [a \in Addrs |-> IF r.heap[a] = FREE THEN [ty \in CounterTypes |-> 0] ELSE held[a]]
  /\ call' = [op |-> op, lock |-> lock, visited |-> r.visited]
  /\ UNCHANGED <<st, stats_options, stats_timer, stats_mutex, stats_locked, pc, now, incs>>

ForeachCluster ==
  \E lock \in BOOLEAN : IterationCall("stats_foreach_cluster", lock, stats_foreach_cluster(Caller(lock)))

ForeachClusterRemove ==
  \E lock \in BOOLEAN, func \in SUBSET Addrs :
    IterationCall("stats_foreach_cluster_remove", lock,
                  stats_foreach_cluster_remove_with(Caller(lock), func))

ForeachCounter ==
  \E lock \in BOOLEAN : IterationCall("stats_foreach_counter", lock, stats_foreach_counter(Caller(lock)))

NextIterate ==
  \/ KeysRegisterCounter
  \/ KeysRegisterDynamicCounter
  \/ ForeachCluster
  \/ ForeachClusterRemove
  \/ ForeachCounter

SpecIterate == Init /\ [][NextIterate]_vars


(***************************************************************************)
(* Threads.  stats_lock() locks stats_mutex and then sets stats_locked;    *)
(* stats_unlock() clears stats_locked and then unlocks stats_mutex.  The   *)
(* assertions of the structural operations read stats_locked, whichever    *)
(* thread has set it.                                                      *)
(***************************************************************************)
stats_lock_mutex(t) ==
  /\ Running /\ pc[t] = "idle" /\ stats_mutex = NoThread
  /\ stats_mutex' = t
  /\ pc' = [pc EXCEPT ![t] = "stats_lock"]
  /\ UNCHANGED <<st, stats_options, stats_timer, counter_hash, heap, stats_locked, now, held, call, incs, fatal>>

stats_lock_flag(t) ==
  /\ Running /\ pc[t] = "stats_lock"
  /\ stats_locked' = TRUE
  /\ pc' = [pc EXCEPT ![t] = "locked"]
  /\ UNCHANGED <<st, stats_options, stats_timer, counter_hash, heap, stats_mutex, now, held, call, incs, fatal>>

\* the first half of stats_unlock leaving the flag as it is
stats_unlock_flag_kept(t) ==
  /\ Running /\ pc[t] = "locked"
  /\ stats_locked' = stats_locked
  /\ pc' = [pc EXCEPT ![t] = "stats_unlock"]
  /\ UNCHANGED <<st, stats_options, stats_timer, counter_hash, heap, stats_mutex, now, held, call, incs, fatal>>

stats_unlock_flag(t) ==
  /\ Running /\ pc[t] = "locked"
  /\ stats_locked' = FALSE
  /\ pc' = [pc EXCEPT ![t] = "stats_unlock"]
  /\ UNCHANGED <<st, stats_options, stats_timer, counter_hash, heap, stats_mutex, now, held, call, incs, fatal>>

stats_unlock_mutex(t) ==
  /\ Running /\ pc[t] = "stats_unlock"
  /\ stats_mutex' = NoThread
  /\ pc' = [pc EXCEPT ![t] = "idle"]
  /\ UNCHANGED <<st, stats_options, stats_timer, counter_hash, heap, stats_locked, now, held, call, incs, fatal>>

\* the callers of the threaded model share the counters of sender "a"
RaceKey == [source |-> SCS_SENDER, id |-> "a", instance |-> ""]
RaceIn == [levels |-> {0}, keys |-> {RaceKey},
           static |-> {[source |-> SCS_SENDER, id |-> "a", instance |-> "",
                        type |-> SC_TYPE_PROCESSED]},
           dynamic |-> {RaceKey}, types |-> {SC_TYPE_PROCESSED}, timestamps |-> {-1},
           log_freqs |-> LogFreqs, lifetimes |-> Lifetimes]

\* thread t calls between its stats_lock() and its stats_unlock()
Holding(t) == Running /\ pc[t] = "locked" /\ UNCHANGED pc
HeldRegisterCounter(t) == Holding(t) /\ RegisterCounterCall(Registry, RaceIn)
HeldRegisterDynamicCounter(t) == Holding(t) /\ RegisterDynamicCounterCall(Registry, RaceIn)
HeldRegisterAssociatedCounter(t) == Holding(t) /\ RegisterAssociatedCounterCall(Registry, RaceIn)
HeldUnregisterCounter(t) == Holding(t) /\ UnregisterCounterCall(Registry, RaceIn)
HeldUnregisterDynamicCounter(t) == Holding(t) /\ UnregisterDynamicCounterCall(Registry, RaceIn)
HeldRegisterAndIncrement(t) == Holding(t) /\ RegisterAndIncrementCall(Registry, RaceIn)

\* thread t calls without having called stats_lock(); "called" is its
\* position when the call has been made
Bare(t) == Running /\ pc[t] = "idle" /\ pc' = [pc EXCEPT ![t] = "called"]
BareRegisterCounter(t) == Bare(t) /\ RegisterCounterCall(Registry, RaceIn)
BareRegisterDynamicCounter(t) == Bare(t) /\ RegisterDynamicCounterCall(Registry, RaceIn)
BareRegisterAssociatedCounter(t) == Bare(t) /\ RegisterAssociatedCounterCall(Registry, RaceIn)
BareUnregisterCounter(t) == Bare(t) /\ UnregisterCounterCall(Registry, RaceIn)
BareUnregisterDynamicCounter(t) == Bare(t) /\ UnregisterDynamicCounterCall(Registry, RaceIn)
BareRegisterAndIncrement(t) == Bare(t) /\ RegisterAndIncrementCall(Registry, RaceIn)

Return(t) ==
  /\ Running /\ pc[t] = "called"
  /\ pc' = [pc EXCEPT ![t] = "idle"]
  /\ UNCHANGED <<st, stats_options, stats_timer, counter_hash, heap, stats_mutex, stats_locked, now, held,
                 call, incs, fatal>>

NextRace ==
  \E t \in Threads :
    \/ stats_lock_mutex(t)
    \/ stats_lock_flag(t)
    \/ stats_unlock_flag(t)
    \/ stats_unlock_mutex(t)
    \/ HeldRegisterCounter(t)
    \/ HeldRegisterDynamicCounter(t)
    \/ HeldRegisterAssociatedCounter(t)
    \/ HeldUnregisterCounter(t)
    \/ HeldUnregisterDynamicCounter(t)
    \/ HeldRegisterAndIncrement(t)
    \/ BareRegisterCounter(t)
    \/ BareRegisterDynamicCounter(t)
    \/ BareRegisterAssociatedCounter(t)
    \/ BareUnregisterCounter(t)
    \/ BareUnregisterDynamicCounter(t)
    \/ BareRegisterAndIncrement(t)
    \/ Return(t)

SpecRace == Init /\ [][NextRace]_vars

(***************************************************************************)
(* The timer handler step by step.  The event loop of the main thread      *)
(* runs stats_timer_elapsed: the pass reads the options and the clock and  *)
(* creates the event record, takes the lock, walks the table, releases the *)
(* lock and sends its messages; then the handler arms the timer again.     *)
(* Meanwhile a worker counts the messages of the source sender "a","x"     *)
(* between its stats_lock() and stats_unlock(), the clock advances, and    *)
(* between two runs of the handler the main thread reloads the options     *)
(* with a log_freq of 1 or 2.                                              *)
(***************************************************************************)
PassIn ==
  [levels |-> {0},
   dynamic |-> {[source |-> SCS_SOURCE + SCS_SENDER, id |-> "a", instance |-> "x"],
                [source |-> SCS_SOURCE + SCS_SENDER, id |-> "a", instance |-> "a"]},
   timestamps |-> {now},
   log_freqs |-> {1, 2}, lifetimes |-> {0}]

\* the loop takes the entry of the timer and calls the handler; the pass
\* initializes st, reads the clock and creates the event record
PassBegin ==
  /\ Running /\ pc["main"] = "idle" /\ st = NO_PASS
  /\ stats_timer.pending > 0
  /\ stats_timer' = [stats_timer EXCEPT !.registered = FALSE, !.pending = @ - 1]
  /\ st' = [phase |-> "begun", publish |-> (stats_options.log_freq > 0),
            now |-> now, oldest_counter |-> 0, dropped_counters |-> 0,
            stats_event |-> IF stats_options.log_freq > 0 THEN <<>> ELSE NULL_EVENT]
  /\ call' = [op |-> "stats_timer_elapsed"]
  /\ UNCHANGED <<stats_options, counter_hash, heap, stats_mutex, stats_locked, pc, now, held,
                 incs, fatal>>

\* stats_lock() of the pass
PassLock ==
  /\ st.phase = "begun"
  /\ (stats_lock_mutex("main") \/ stats_lock_flag("main"))

\* stats_foreach_cluster_remove(stats_format_and_prune_cluster, &st)
PassWalk ==
  /\ Running /\ pc["main"] = "locked" /\ st.phase = "begun"
  /\ \E order \in Orders(Nodes(counter_hash)), ub \in NullEventOutcomes(st.publish) :
       \E w \in {stats_foreach_cluster_remove(order,
                    [hash |-> counter_hash, heap |-> heap, st |-> st], ub)} :
          /\ counter_hash' = w.hash
          /\ heap' = w.heap
          /\ fatal' = IF Died(w.st.stats_event) THEN w.st.stats_event[1].name ELSE fatal
          /\ st' = [w.st EXCEPT !.phase = "walked"]
  /\ call' = [op |-> "stats_foreach_cluster_remove"]
  /\ UNCHANGED <<stats_options, stats_timer, stats_mutex, stats_locked, pc, now, held, incs>>

\* stats_unlock() of the pass
PassUnlock ==
  /\ st.phase = "walked"
  /\ (stats_unlock_flag("main") \/ stats_unlock_mutex("main"))

\* the pass sending the event and the notice before its stats_unlock()
PassSend_locked ==
  /\ Running /\ pc["main"] = "locked" /\ st.phase = "walked"
  /\ call' = [op |-> "stats_publish_and_prune_counters", timer |-> TRUE, event |-> st.publish,
              tags |-> IF st.publish THEN {st.stats_event[i] : i \in DOMAIN st.stats_event}
                       ELSE {},
              notice |-> (st.dropped_counters > 0),
              dropped |-> st.dropped_counters, oldest |-> st.oldest_counter]
  /\ st' = [st EXCEPT !.phase = "returned"]
  /\ UNCHANGED <<stats_options, stats_timer, counter_hash, heap, stats_mutex, stats_locked, pc,
                 now, held, incs, fatal>>

\* msg_event_send of the event record and msg_notice of the pruning; the
\* pass returns
PassSend ==
  /\ Running /\ pc["main"] = "idle" /\ st.phase = "walked"
  /\ call' = [op |-> "stats_publish_and_prune_counters", timer |-> TRUE, event |-> st.publish,
              tags |-> IF st.publish THEN {st.stats_event[i] : i \in DOMAIN st.stats_event}
                       ELSE {},
              notice |-> (st.dropped_counters > 0),
              dropped |-> st.dropped_counters, oldest |-> st.oldest_counter]
  /\ st' = [st EXCEPT !.phase = "returned"]
  /\ UNCHANGED <<stats_options, stats_timer, counter_hash, heap, stats_mutex, stats_locked, pc,
                 now, held, incs, fatal>>

\* stats_timer_rearm(&stats_timer) of the handler: expires is iv_now plus
\* freq * 1000 msec, in seconds here
PassRearm ==
  /\ Running /\ st.phase = "returned"
  /\ stats_timer' = stats_timer_rearm(stats_timer)
  /\ call' = [op |-> "stats_timer_rearm", expires |-> now + stats_timer.cookie]
  /\ st' = NO_PASS
  /\ UNCHANGED <<stats_options, counter_hash, heap, stats_mutex, stats_locked, pc, now, held,
                 incs, fatal>>

WorkerLocking ==
  \/ stats_lock_mutex("worker")
  \/ stats_lock_flag("worker")
  \/ stats_unlock_flag("worker")
  \/ stats_unlock_mutex("worker")

WorkerRegisterAndIncrement == Holding("worker") /\ RegisterAndIncrementCall(Registry, PassIn)

\* the main thread reloads the configuration between two runs of the handler
PassReinit == st = NO_PASS /\ stats_reinit(PassIn)

NextPass ==
  \/ PassBegin
  \/ PassLock
  \/ PassWalk
  \/ PassUnlock
  \/ PassSend
  \/ PassRearm
  \/ WorkerLocking
  \/ WorkerRegisterAndIncrement
  \/ PassReinit
  \/ Tick

SpecPass == Init /\ [][NextPass]_vars

(***************************************************************************)
(* The hot path.  Every thread has registered the processed counter of     *)
(* sender "a" and increments the cell through its handle, without the      *)
(* lock, while the threads also take and release the lock.                 *)
(***************************************************************************)
HotCell == [sc |-> 1, type |-> SC_TYPE_PROCESSED]
InitialValues == 0..1

InitHot ==
  /\ stats_options = NULL_OPTIONS
  /\ stats_timer = NO_TIMER
  /\ counter_hash = {HotCell.sc}
  /\ \E value \in InitialValues :
       /\ heap = [a \in Addrs |->
                    IF a = HotCell.sc
                    THEN [NewCluster(SCS_SENDER, "a", "") EXCEPT
                            !.ref_cnt = Cardinality(Threads),
                            !.live_mask = {HotCell.type},
                            !.counters[HotCell.type] = value]
                    ELSE FREE]
       /\ call = [op |-> "stats_counter_inc", counter |-> HotCell, initial |-> value]
  /\ stats_mutex = NoThread
  /\ stats_locked = FALSE
  /\ pc = [t \in Threads |-> "idle"]
  /\ now = 0
  /\ held = [a \in Addrs |-> [ty \in CounterTypes |->
               IF a = HotCell.sc /\ ty = HotCell.type THEN Cardinality(Threads) ELSE 0]]
  /\ incs = [t \in Threads |-> 0]
  /\ st = NO_PASS
  /\ fatal = "none"

HotInc(t) ==
  /\ Running /\ pc[t] = "idle" /\ incs[t] < MaxIncs
  /\ heap' = stats_counter_inc(heap, call.counter)
  /\ incs' = [incs EXCEPT ![t] = @ + 1]
  /\ UNCHANGED <<st, stats_options, stats_timer, counter_hash, stats_mutex, stats_locked, pc, now, held,
                 call, fatal>>

NextHot ==
  \E t \in Threads :
    \/ HotInc(t)
    \/ stats_lock_mutex(t)
    \/ stats_lock_flag(t)
    \/ stats_unlock_flag(t)
    \/ stats_unlock_mutex(t)

SpecHot == InitHot /\ [][NextHot]_vars

(***************************************************************************)
(* Properties.                                                             *)
(***************************************************************************)
\* the clusters of the registry stored under the key of a call's arguments
ClustersOf(k) ==
  {a \in counter_hash : /\ heap[a].source = k.source
                        /\ heap[a].id = NormStr(k.id)
                        /\ heap[a].instance = NormStr(k.instance)}

\* the registrations on cluster a that have not been unregistered
HeldOn(a) == held[a][0] + held[a][1] + held[a][2] + held[a][3] + held[a][4]

\* options.level < level; before stats_reinit only level 0 passes
Gated(stats_level) ==
  IF stats_options = NULL_OPTIONS THEN stats_level # 0
  ELSE stats_options.level < stats_level

RegisterOps == {"stats_register_counter", "stats_register_dynamic_counter",
                "stats_register_associated_counter"}
UnregisterOps == {"stats_unregister_counter", "stats_unregister_dynamic_counter"}
PassOp == "stats_publish_and_prune_counters"

\* C1: the registry never holds two clusters with the same (source, id,
\* instance): no two distinct clusters of the hash table have equal keys.
Uniqueness ==
  \A a, b \in counter_hash :
    (/\ heap[a].source = heap[b].source
     /\ heap[a].id = heap[b].id
     /\ heap[a].instance = heap[b].instance) => a = b

\* two clusters are registered and one of them was registered a second time
UniquenessWitness ==
  /\ Running /\ call.op \in RegisterOps
  /\ Cardinality(counter_hash) = 2
  /\ \E a \in counter_hash : heap[a].ref_cnt = 2

\* C2: while every registration is unregistered at most once, through the
\* handle it returned, the ref_cnt of each cluster is the number of its
\* registrations not yet unregistered, and so is never negative.
RefCntBalance ==
  Running => \A a \in counter_hash : heap[a].ref_cnt = HeldOn(a) /\ heap[a].ref_cnt >= 0

\* an unregistration has left a cluster with one of its registrations
RefCntBalanceWitness ==
  /\ Running /\ call.op \in UnregisterOps /\ call.counter = NULL_ITEM
  /\ \E a \in counter_hash : heap[a].ref_cnt = 1 /\ HeldOn(a) = 1 /\ Cardinality(heap[a].live_mask) = 2

\* C3: a stats_register_counter or stats_register_dynamic_counter call with
\* options.level < level returns NULL handles and leaves the hash table and
\* every cluster as they were.
LevelGating ==
  (Running /\ stats_options # NULL_OPTIONS) =>
    \A stats_level \in Levels :
      stats_options.level < stats_level =>
        /\ \A arg \in StaticArgs :
             \A r \in {stats_register_counter(Locked(Registry), stats_level, arg.source,
                                               arg.id, arg.instance, arg.type, Fresh)} :
                /\ r.counter = NULL_ITEM /\ r.fatal = "none"
                /\ r.hash = counter_hash /\ r.heap = heap
        /\ \A arg \in DynamicKeys, type \in RegTypes, garbage \in BOOLEAN :
             \A r \in {stats_register_dynamic_counter(Locked(Registry), stats_level,
                        arg.source, arg.id, arg.instance, type, Fresh, garbage)} :
                /\ r.counter = NULL_ITEM /\ r.sc = NULL /\ r.fatal = "none"
                /\ r.hash = counter_hash /\ r.heap = heap

\* a registration has just been refused at level 0 while the key it names is
\* registered
LevelGatingWitness ==
  /\ Running /\ stats_options # NULL_OPTIONS /\ stats_options.level = 0
  /\ call.op \in {"stats_register_counter", "stats_register_dynamic_counter"}
  /\ call.counter = NULL_ITEM
  /\ Cardinality(counter_hash) = 2

\* C4: a publish-and-prune pass removes only dynamic clusters; a cluster that
\* is not dynamic is in the registry, unchanged, after the pass.
StaticNeverPruned ==
  [][call'.op = PassOp =>
       \A a \in counter_hash :
         /\ a \notin counter_hash' => heap[a].dynamic
         /\ ~heap[a].dynamic => (a \in counter_hash' /\ heap'[a] = heap[a])]_vars

\* a pass has kept a static cluster that has no registration, has the Stamp
\* bit and a stamp older than the lifetime
StaticNeverPrunedWitness ==
  /\ Running /\ call.op = PassOp
  /\ \E a \in counter_hash :
       /\ ~heap[a].dynamic /\ heap[a].ref_cnt = 0
       /\ SC_TYPE_STAMP \in heap[a].live_mask
       /\ heap[a].counters[SC_TYPE_STAMP] <= now - stats_options.lifetime

\* C5: a pass never removes a cluster with ref_cnt > 0, and every handle
\* whose registration is outstanding refers to a cluster of the registry.
HandleValidity ==
  [][/\ call'.op = PassOp =>
          \A a \in counter_hash :
            heap[a].ref_cnt > 0 => (a \in counter_hash' /\ heap'[a] = heap[a])
     /\ \A a \in Addrs : (HeldOn(a))' > 0 => a \in counter_hash']_vars

\* a pass has kept a dynamic cluster whose stamp is older than the lifetime
\* because a registration on it is outstanding
HandleValidityWitness ==
  /\ Running /\ call.op = PassOp
  /\ \E a \in counter_hash :
       /\ heap[a].dynamic /\ heap[a].ref_cnt > 0 /\ HeldOn(a) > 0
       /\ SC_TYPE_STAMP \in heap[a].live_mask
       /\ heap[a].counters[SC_TYPE_STAMP] <= now - stats_options.lifetime

\* C6: a pass removes a dynamic cluster with ref_cnt = 0 exactly when the
\* cluster has the Stamp bit and stamp <= now - options.lifetime.
ExpirationDecision ==
  [][call'.op = PassOp =>
       \A a \in counter_hash :
         (heap[a].dynamic /\ heap[a].ref_cnt = 0) =>
           (a \notin counter_hash' <=>
              (/\ SC_TYPE_STAMP \in heap[a].live_mask
               /\ heap[a].counters[SC_TYPE_STAMP] <= now - stats_options.lifetime))]_vars

\* a pass has removed a cluster whose stamp was exactly now - lifetime
ExpirationDecisionWitness ==
  /\ Running /\ call.op = PassOp
  /\ call.dropped = 1 /\ call.oldest = now - stats_options.lifetime
  /\ now > stats_options.lifetime

\* C7: a stats_register_dynamic_counter call that passes the level gate
\* reports new = TRUE for an absent key; for a key whose cluster has
\* ref_cnt = 0 it returns that cluster with ref_cnt = 1, no live_mask bit
\* lost and new = TRUE; for a key whose cluster has ref_cnt > 0 it reports
\* new = FALSE.
ReRegistrationRevives ==
  Running =>
    \A stats_level \in Levels, arg \in DynamicKeys, type \in RegTypes :
      ~Gated(stats_level) =>
        \A r \in {stats_register_dynamic_counter(Locked(Registry), stats_level, arg.source,
                                                  arg.id, arg.instance, type, Fresh, FALSE)} :
           /\ ClustersOf(arg) = {} => r.new = TRUE
           /\ \A sc \in ClustersOf(arg) :
                IF heap[sc].ref_cnt = 0
                THEN /\ r.fatal = "none" /\ r.sc = sc /\ r.new = TRUE
                     /\ r.heap[sc].ref_cnt = 1
                     /\ heap[sc].live_mask \subseteq r.heap[sc].live_mask
                ELSE r.new = FALSE

\* a dynamic registration has revived a cluster: it is reported as new, has
\* one registration and more live bits than the registration set
ReRegistrationRevivesWitness ==
  /\ Running /\ call.op = "stats_register_dynamic_counter"
  /\ call.new = TRUE /\ call.sc \in counter_hash
  /\ heap[call.sc].ref_cnt = 1
  /\ Cardinality(heap[call.sc].live_mask) = 2

\* C8: a stats_register_dynamic_counter call that passes the level gate for
\* a key whose cluster is not dynamic aborts and leaves the cluster not
\* dynamic, whatever the ref_cnt of the cluster.
DynamicStaticMismatchFatal ==
  Running =>
    \A stats_level \in Levels, arg \in DynamicKeys, type \in RegTypes :
      ~Gated(stats_level) =>
        \A r \in {stats_register_dynamic_counter(Locked(Registry), stats_level, arg.source,
                                                  arg.id, arg.instance, type, Fresh, FALSE)} :
           \A sc \in ClustersOf(arg) :
             ~heap[sc].dynamic => (r.fatal # "none" /\ ~r.heap[sc].dynamic)


\* C9: a structural operation called by a thread that has not taken the lock
\* aborts and leaves the hash table and the clusters as they were, also while
\* another thread holds the lock.
LockContract ==
  [][\A t \in Threads :
       (pc[t] = "idle" /\ pc'[t] = "called") =>
         (fatal' # "none" /\ counter_hash' = counter_hash /\ heap' = heap)]_vars

RECURSIVE SumIncs(_)
SumIncs(S) ==
  IF S = {} THEN 0
  ELSE LET t == CHOOSE x \in S : TRUE IN incs[t] + SumIncs(S \ {t})

TagFormat ==
  [][LET Live == {c \in Nodes(counter_hash) \X CounterTypes : c[2] \in heap[c[1]].live_mask}
         Value(sc, type) ==
           stats_get_direction_and_source_name(sc.source) \o "(" \o sc.id
             \o (IF sc.id = "" \/ sc.instance = "" THEN "" ELSE ",") \o sc.instance
             \o ")=" \o ToString(sc.counters[type])
         Tag(c) == [name |-> tag_names[c[2] + 1], value |-> Value(heap[c[1]], c[2])]
     IN (call'.op = PassOp /\ call'.event) =>
             call'.tags = {Tag(c) : c \in Live}]_vars

\* an event was sent with the tags of a cluster without id and of a cluster
\* with id and instance
TagFormatWitness ==
  /\ call.op = PassOp /\ call.event
  /\ [name |-> "processed", value |-> "sender(x)=0"] \in call.tags
  /\ [name |-> "processed", value |-> "src.sender(a,x)=1"] \in call.tags

\* C11 as stated: comma and instance are both left out whenever id or
\* instance is empty
TagFormatAsStated ==
  [][LET Live == {c \in Nodes(counter_hash) \X CounterTypes : c[2] \in heap[c[1]].live_mask}
         Value(sc, type) ==
           stats_get_direction_and_source_name(sc.source) \o "(" \o sc.id
             \o (IF sc.id = "" \/ sc.instance = "" THEN "" ELSE "," \o sc.instance)
             \o ")=" \o ToString(sc.counters[type])
         Tag(c) == [name |-> tag_names[c[2] + 1], value |-> Value(heap[c[1]], c[2])]
     IN (call'.op = PassOp /\ call'.event) =>
             call'.tags = {Tag(c) : c \in Live}]_vars

(***************************************************************************)
(* C12  Publishing gated by log_freq, pruning not.  A pass sends exactly   *)
(* one "Log statistics" event when log_freq > 0 and none when it is 0; in  *)
(* both cases it completes its walk and removes exactly the clusters that  *)
(* are expired.                                                            *)
(***************************************************************************)
PublishGatedPruneNot ==
  [][call'.op = PassOp =>
       /\ fatal' = fatal
       /\ call'.event = (stats_options.log_freq > 0)
       /\ Nodes(counter_hash') =
            {a \in Nodes(counter_hash) : ~stats_counter_is_expired(heap[a], now)}]_vars

(***************************************************************************)
(* C13  Prune notice.  A pass emits the notice iff it removed at least one *)
(* cluster; dropped is the number of clusters removed; when the stamps of  *)
(* the removed clusters are positive, oldest-timestamp is their minimum,   *)
(* in whatever order the table was walked.                                 *)
(***************************************************************************)
PruneNotice ==
  [][LET Removed == Nodes(counter_hash) \ Nodes(counter_hash')
         Stamps == {heap[a].counters[SC_TYPE_STAMP] : a \in Removed}
     IN call'.op = PassOp =>
          /\ call'.notice = (Removed # {})
          /\ call'.dropped = Cardinality(Removed)
          /\ (Removed # {} /\ \A t \in Stamps : t > 0) =>
                /\ call'.oldest \in Stamps
                /\ \A t \in Stamps : call'.oldest <= t]_vars

\* a pass published and removed two clusters stamped 1 and 2
PruneNoticeWitness ==
  /\ call.op = PassOp /\ call.notice /\ call.dropped = 2 /\ call.oldest = 1
  /\ [name |-> "stamp", value |-> "src.sender(x)=1"] \in call.tags
  /\ [name |-> "stamp", value |-> "src.sender(a,x)=2"] \in call.tags

(***************************************************************************)
(* C14  Effective scheduler frequency.  stats_timer_reinit leaves a timer  *)
(* whose freq is log_freq when log_freq is nonzero and max(1, lifetime/2)  *)
(* otherwise, for every lifetime; the timer is armed exactly when that     *)
(* freq is positive, so a negative log_freq leaves it unarmed.  This holds *)
(* of the timer the program has after stats_reinit and of the timer a      *)
(* stats_timer_reinit with any options of -2..2 and -4..7 would leave.     *)
(***************************************************************************)
EffectiveFrequency ==
  LET Max(a, b) == IF a >= b THEN a ELSE b
      Half(n) == IF n >= 0 THEN n \div 2 ELSE -((-n) \div 2)
      Freq(o) == IF o.log_freq # 0 THEN o.log_freq ELSE Max(1, Half(o.lifetime))
      Armed(t, o) == /\ t.handler = "stats_timer_elapsed"
                     /\ t.cookie = Freq(o)
                     /\ t.registered = (Freq(o) > 0)
  IN /\ (Running /\ stats_options # NULL_OPTIONS) => Armed(stats_timer, stats_options)
     /\ \A log_freq \in -2..2, lifetime \in -4..7 :
          \A o \in {[level |-> 0, log_freq |-> log_freq, lifetime |-> lifetime]} :
             Armed(stats_timer_reinit(stats_timer, o), o)

\* stats_reinit has armed the timer for 1 second, half of the lifetime 0
\* being less
EffectiveFrequencyWitness ==
  /\ call.op = "stats_reinit"
  /\ stats_options.log_freq = 0 /\ stats_options.lifetime = 0
  /\ stats_timer = [handler |-> "stats_timer_elapsed", cookie |-> 1, registered |-> TRUE,
                   pending |-> 1]

\* C14 as stated: the timer is armed whatever the nonzero log_freq
EffectiveFrequencyAsStated ==
  LET Max(a, b) == IF a >= b THEN a ELSE b
      Half(n) == IF n >= 0 THEN n \div 2 ELSE -((-n) \div 2)
      Freq(o) == IF o.log_freq # 0 THEN o.log_freq ELSE Max(1, Half(o.lifetime))
  IN (Running /\ stats_options # NULL_OPTIONS) =>
        /\ stats_timer.cookie = Freq(stats_options)
        /\ stats_timer.registered

(***************************************************************************)
(* C15  No firing after teardown.  Once stats_destroy has freed the        *)
(* registry, the timer does not elapse: no step taken with counter_hash    *)
(* NULL is a publish-and-prune pass.                                       *)
(***************************************************************************)
NoFiringAfterTeardown ==
  [][counter_hash = NULL_HASH => call'.op # PassOp]_vars

UnregisterFrame ==
  LET Spellings(str) == IF str = "" THEN {"", NULL_STR} ELSE {str}
  IN /\ \A a \in counter_hash, type \in CounterTypes :
          \A id \in Spellings(heap[a].id), instance \in Spellings(heap[a].instance) :
            \A r \in {stats_unregister_counter(Locked(Registry), heap[a].source, id, instance,
                                                type, Item(a, type))} :
              (type \in heap[a].live_mask /\ heap[a].ref_cnt > 0) =>
                 /\ r.fatal = "none"
                 /\ r.counter = NULL_ITEM
                 /\ r.hash = counter_hash
                 /\ r.heap = [heap EXCEPT ![a].ref_cnt = @ - 1]
     /\ \A k \in Keys, type \in CounterTypes :
          \A r \in {stats_unregister_counter(Locked(Registry), k.source, k.id, k.instance,
                                              type, NULL_ITEM)} :
             /\ r.fatal = "none" /\ r.counter = NULL_ITEM
             /\ r.hash = counter_hash /\ r.heap = heap

\* stats_unregister_counter has given back the last registration of a
\* static cluster, which is still in the table with its live cells
UnregisterFrameWitness ==
  /\ Running /\ call.op = "stats_unregister_counter" /\ call.counter = NULL_ITEM
  /\ \E a \in counter_hash :
        /\ ~heap[a].dynamic /\ heap[a].ref_cnt = 0 /\ HeldOn(a) = 0
        /\ heap[a].live_mask # {}

(***************************************************************************)
(* C18  The two unregistration variants.  For every cluster C of the       *)
(* table, every kind and every non-null handle (of any cell of any         *)
(* cluster, used before or not), stats_unregister_dynamic_counter(C, kind, *)
(* handle) and stats_unregister_counter(key(C), kind, handle) both abort   *)
(* or both return, and leave the same table and the same ref_cnt.          *)
(***************************************************************************)
UnregisterVariantsAgree ==
  \A a \in counter_hash, type \in CounterTypes, counter \in CellHandles \ {NULL_ITEM} :
    \A s \in {stats_unregister_counter(Locked(Registry), heap[a].source, heap[a].id,
                                        heap[a].instance, type, counter)},
       d \in {stats_unregister_dynamic_counter(Locked(Registry), a, type, counter)} :
      /\ (s.fatal = "none") = (d.fatal = "none")
      /\ s.hash = d.hash
      /\ s.heap = d.heap

\* stats_unregister_dynamic_counter has given back the last registration of
\* a cluster, as stats_unregister_counter would have
UnregisterVariantsAgreeWitness ==
  /\ Running /\ call.op = "stats_unregister_dynamic_counter" /\ call.counter # NULL_ITEM
  /\ heap[call.counter.sc].ref_cnt = 0 /\ HeldOn(call.counter.sc) = 0

\* C18 as stated: the variants agree for the null handle too
UnregisterVariantsAgreeAsStated ==
  \A a \in counter_hash, type \in CounterTypes, counter \in CellHandles :
    \A s \in {stats_unregister_counter(Locked(Registry), heap[a].source, heap[a].id,
                                        heap[a].instance, type, counter)},
       d \in {stats_unregister_dynamic_counter(Locked(Registry), a, type, counter)} :
      /\ (s.fatal = "none") = (d.fatal = "none")
      /\ s.hash = d.hash
      /\ s.heap = d.heap

(***************************************************************************)
(* C19  Monotonic structural flags.  No step clears a bit of live_mask or  *)
(* resets dynamic of a cluster that is in the table before and after it:   *)
(* from its creation to its removal a cluster only gains live kinds, and   *)
(* once dynamic it stays dynamic.                                          *)
(***************************************************************************)
MonotonicFlags ==
  [][\A a \in Nodes(counter_hash) \cap Nodes(counter_hash') :
        /\ heap[a].live_mask \subseteq heap'[a].live_mask
        /\ heap[a].dynamic => heap'[a].dynamic]_vars

\* a pass has kept a dynamic cluster with two live kinds that a caller
\* holds a handle of
MonotonicFlagsWitness ==
  /\ Running /\ call.op = PassOp
  /\ \E a \in counter_hash :
        /\ heap[a].dynamic /\ heap[a].ref_cnt > 0
        /\ {SC_TYPE_PROCESSED, SC_TYPE_STAMP} \subseteq heap[a].live_mask
        /\ held[a][SC_TYPE_PROCESSED] > 0

(***************************************************************************)
(* C20  Key identity.  Two registrations made one after the other refer to *)
(* the same cluster iff their packed sources, direction flags included,    *)
(* are equal and their ids and instances are equal once a NULL is read as  *)
(* the empty string; stats_unregister_counter finds the cluster of the     *)
(* first under the key of the second on the same condition; and equal keys *)
(* have equal hashes.                                                      *)
(***************************************************************************)
KeyIdentity ==
  LET Args == [source : {SCS_SENDER, SCS_SOURCE + SCS_SENDER},
               id : {NULL_STR, "", "a"}, instance : {NULL_STR, "x"}]
      Same(k1, k2) == /\ k1.source = k2.source
                      /\ NormStr(k1.id) = NormStr(k2.id)
                      /\ NormStr(k1.instance) = NormStr(k2.instance)
      Free(r) == {a \in Addrs : r.heap[a] = FREE}
      First(r) == IF Free(r) = {} THEN NULL ELSE CHOOSE a \in Free(r) : \A b \in Free(r) : a <= b
      Register(r, k) == stats_register_counter([hash |-> r.hash, heap |-> r.heap, locked |-> TRUE],
                                               0, k.source, k.id, k.instance,
                                               SC_TYPE_PROCESSED, First(r))
      Unregister(r, k) == stats_unregister_counter([hash |-> r.hash, heap |-> r.heap, locked |-> TRUE],
                                                   k.source, k.id, k.instance,
                                                   SC_TYPE_PROCESSED, r.counter)
  IN (Running /\ counter_hash # NULL_HASH /\ stats_check_level(0)) =>
       \A k1 \in Args :
         \A r1 \in {Register(Registry, k1)} :
           \A k2 \in Args :
             /\ Allocated(r1) =>
                  /\ \A r2 \in {Register(r1, k2)} :
                       Allocated(r2) => ((r2.sc = r1.sc) <=> Same(k1, k2))
                  /\ \A u \in {Unregister(r1, k2)} : (u.fatal = "none") <=> Same(k1, k2)
             /\ Same(k1, k2) => stats_counter_hash(Key(k1.source, k1.id, k1.instance))
                                  = stats_counter_hash(Key(k2.source, k2.id, k2.instance))

\* the table holds the clusters of sender "x" with and without the source
\* flag, the first registered twice
KeyIdentityWitness ==
  /\ Running /\ call.op = "stats_register_counter"
  /\ \E a, b \in counter_hash :
        /\ heap[a].ref_cnt = 2
        /\ heap[a].source = SCS_SENDER /\ heap[b].source = SCS_SOURCE + SCS_SENDER
        /\ heap[a].id = "" /\ heap[b].id = ""
        /\ heap[a].instance = "x" /\ heap[b].instance = "x"
        /\ stats_counter_hash(heap[a]) # stats_counter_hash(heap[b])

(***************************************************************************)
(* C21  Direction and source naming.  A packed source whose component is   *)
(* group is rendered "source" when IS_SOURCE is set and "destination" when *)
(* only IS_DESTINATION is set; a source of any other component is rendered *)
(* as "src." (IS_SOURCE set), "dst." (only IS_DESTINATION set) or ""       *)
(* followed by the name of the component.  This holds of the function for  *)
(* every component and flag combination, and of the tags of every event a  *)
(* pass sends.                                                             *)
(***************************************************************************)
DirectionAndSourceNaming ==
  [][LET IsSource(source) == (source \div SCS_SOURCE) % 2 = 1
         IsDestination(source) == (source \div SCS_DESTINATION) % 2 = 1
         Component(source) == source % (SCS_SOURCE_MASK + 1)
         Rendered(source) ==
           IF Component(source) = SCS_GROUP
           THEN (IF IsSource(source) THEN "source" ELSE "destination")
           ELSE (IF IsSource(source) THEN "src."
                 ELSE IF IsDestination(source) THEN "dst." ELSE "")
                \o source_names[Component(source) + 1]
         Packed == {component + flags :
                      component \in 0..(Len(source_names) - 1),
                      flags \in {0, SCS_SOURCE, SCS_DESTINATION, SCS_SOURCE + SCS_DESTINATION}}
                   \ {SCS_GROUP}
         Live == {c \in Nodes(counter_hash) \X CounterTypes : c[2] \in heap[c[1]].live_mask}
         Tag(sc, type) ==
           [name |-> tag_names[type + 1],
            value |-> Rendered(sc.source) \o "(" \o sc.id
                      \o (IF sc.id = "" \/ sc.instance = "" THEN "" ELSE ",") \o sc.instance
                      \o ")=" \o ToString(sc.counters[type])]
     IN /\ \A source \in Packed : stats_get_direction_and_source_name(source) = Rendered(source)
        /\ (call'.op = PassOp /\ call'.event) =>
              call'.tags = {Tag(heap[c[1]], c[2]) : c \in Live}]_vars

\* an event was sent with the tags of the group "a" as a source and as a
\* destination
DirectionAndSourceNamingWitness ==
  /\ call.op = PassOp /\ call.event
  /\ [name |-> "processed", value |-> "source(a)=0"] \in call.tags
  /\ [name |-> "processed", value |-> "destination(a)=0"] \in call.tags

(***************************************************************************)
(* C26  The pass never aborts on an accepted cluster.  Whatever clusters   *)
(* the registrations have put into the table, a publish-and-prune pass     *)
(* ends with the process running.                                          *)
(***************************************************************************)
PassNeverAborts ==
  [][call'.op = PassOp => fatal' = "none"]_vars

(***************************************************************************)
(* C25  Lock flag consistency.  While threads call stats_lock and          *)
(* stats_unlock in any interleaving, stats_locked is TRUE only while some  *)
(* thread owns stats_mutex, and at most one thread is between the start of *)
(* its stats_lock and the end of its stats_unlock; that thread is the      *)
(* owner of the mutex.                                                     *)
(***************************************************************************)
LockFlagConsistency ==
  LET Inside == {t \in Threads : pc[t] \in {"stats_lock", "locked", "stats_unlock"}}
  IN /\ stats_locked => stats_mutex # NoThread
     /\ Cardinality(Inside) <= 1
     /\ \A t \in Inside : stats_mutex = t
     /\ stats_locked => \E t \in Threads : pc[t] = "locked"

\* the worker is between its stats_lock and its stats_unlock, the flag set,
\* after the main thread has made all its increments
LockFlagConsistencyWitness ==
  /\ stats_locked /\ stats_mutex = "worker" /\ pc["worker"] = "locked"
  /\ pc["main"] = "idle" /\ incs["main"] = MaxIncs

(***************************************************************************)
(* C24  The iteration helpers refuse to run without the lock.  A call of   *)
(* stats_foreach_cluster, stats_foreach_cluster_remove or                  *)
(* stats_foreach_counter by a caller that has not taken the lock aborts,   *)
(* calls its visitor with nothing and leaves the table and the clusters as *)
(* they were.                                                              *)
(***************************************************************************)
IterationRequiresLock ==
  [][(call'.op \in {"stats_foreach_cluster", "stats_foreach_cluster_remove",
                    "stats_foreach_counter"} /\ ~call'.lock) =>
        /\ fatal' # "none"
        /\ call'.visited = {}
        /\ counter_hash' = counter_hash
        /\ heap' = heap]_vars

(***************************************************************************)
(* C22  Scheduler protocol.  The handler arms the timer only when its pass *)
(* has returned (messages sent, lock released), and while the handler runs *)
(* the timer is not armed; the timer it arms expires freq seconds after    *)
(* the time of the rearming, freq being the frequency of the options in    *)
(* force; stats_reinit leaves exactly the timer it arms (none when that    *)
(* freq is not positive), so the event loop never holds more than one      *)
(* entry of the timer, the timer is registered exactly when the loop holds *)
(* an entry, and the handler is only run by an entry that carries the      *)
(* frequency of the latest stats_reinit.                                   *)
(***************************************************************************)
SchedulerProtocol ==
  [][LET Freq(o) == IF o.log_freq # 0 THEN o.log_freq
                    ELSE IF o.lifetime <= 1 THEN 1 ELSE o.lifetime \div 2
         \* the step is the call op: the steps of stats_lock and stats_unlock
         \* leave call as it is and move pc
         Step(op) == call'.op = op /\ pc' = pc
     IN /\ stats_timer'.pending <= 1
        /\ stats_timer'.registered = (stats_timer'.pending = 1)
        /\ st' # NO_PASS => stats_timer'.pending = 0
        /\ Step("stats_timer_elapsed") =>
              /\ stats_timer.cookie = Freq(stats_options)
              /\ st'.phase = "begun"
        /\ Step("stats_timer_rearm") =>
              /\ st.phase = "returned" /\ pc["main"] = "idle" /\ stats_mutex # "main"
              /\ stats_timer'.pending = 1
              /\ call'.expires = now + Freq(stats_options)
        /\ Step("stats_reinit") =>
              /\ stats_timer'.cookie = Freq(stats_options')
              /\ stats_timer'.pending = (IF Freq(stats_options') > 0 THEN 1 ELSE 0)]_vars

\* after a reload that changed the frequency from 1 to 2 or kept it at 2,
\* the handler has run a pass and armed the timer for two seconds later
SchedulerProtocolWitness ==
  /\ call.op = "stats_timer_rearm" /\ now > 0 /\ call.expires = now + 2
  /\ stats_timer = [handler |-> "stats_timer_elapsed", cookie |-> 2, registered |-> TRUE,
                    pending |-> 1]
  /\ st = NO_PASS

(***************************************************************************)
(* C23: ordering inside one publish-and-prune pass.  The pass reads the    *)
(* clock while it does not own the lock; while the main thread owns the    *)
(* lock the table and the clusters change only by the one walk of the      *)
(* pass, which formats every cluster of the table and removes exactly      *)
(* those expired at the time read; the pass has released the lock when it  *)
(* returns; the event and the notice are sent after the release.           *)
(***************************************************************************)
PassOrdering ==
  [][LET Step(op) == call'.op = op /\ pc' = pc
         Table == Nodes(counter_hash)
         Expired == {a \in Table : stats_counter_is_expired(heap[a], st.now)}
         Live == {c \in Table \X (0..SC_TYPE_MAX - 1) : c[2] \in heap[c[1]].live_mask}
     IN /\ Step("stats_timer_elapsed") =>
              /\ st'.now = now
              /\ stats_mutex # "main" /\ pc["main"] = "idle"
        /\ (stats_mutex = "main" /\ (counter_hash' # counter_hash \/ heap' # heap)) =>
              Step("stats_foreach_cluster_remove")
        /\ Step("stats_foreach_cluster_remove") =>
              /\ st.phase = "begun" /\ st'.phase = "walked"
              /\ stats_mutex = "main" /\ stats_locked
              /\ Nodes(counter_hash') = Table \ Expired
              /\ st'.dropped_counters = Cardinality(Expired)
              /\ Len(st'.stats_event) = Cardinality(Live)
              /\ st'.now = st.now
        /\ Step("stats_publish_and_prune_counters") =>
              /\ st.phase = "walked" /\ st'.phase = "returned"
              /\ stats_mutex # "main" /\ pc["main"] = "idle"
              /\ call'.event /\ Len(st.stats_event) = Cardinality(call'.tags)
              /\ call'.notice = (st.dropped_counters > 0)
        /\ st'.phase = "returned" => stats_mutex' # "main"]_vars

\* a pass that has pruned a cluster registered by the worker and sent the
\* notice after the worker took the lock, the clock having moved since the
\* pass read it
PassOrderingWitness ==
  /\ call.op = "stats_publish_and_prune_counters" /\ call.notice /\ call.dropped = 2
  /\ st.phase = "returned" /\ st.now < now
  /\ stats_mutex = "worker"

(***************************************************************************)
(* C27: pruning always stays scheduled.  Under the options of any          *)
(* stats_reinit, a dynamic cluster of the table that is expired and not    *)
(* referenced does not stay so for ever: a pass of the timer removes it    *)
(* (or it is registered again, or the table is destroyed).                 *)
(***************************************************************************)
PruningStaysScheduled ==
  \A a \in Addrs :
    (IF stats_options # NULL_OPTIONS /\ a \in Nodes(counter_hash)
     THEN stats_counter_is_expired(heap[a], now) ELSE FALSE)
    ~> (IF stats_options # NULL_OPTIONS /\ a \in Nodes(counter_hash)
        THEN ~stats_counter_is_expired(heap[a], now) ELSE TRUE)

====
